---- MODULE Spec2Model ----
(***************************************************************************)
(* Model of BiologicalScience/PlateletsDeposition/Statistics.py: the three *)
(* summary-statistics extractors DepositionStatistics,                     *)
(* DepositionIdentityStatistics and DepositionStatisticsCombined.          *)
(*                                                                         *)
(* Numbers.  Trajectory entries are small integers.  Every intermediate    *)
(* quantity of the code is a rational number, kept exactly as a reduced    *)
(* pair <<n, d>> with d > 0.  A value the code stores in a float array is   *)
(* a record [k, s, n, d]:                                                  *)
(*    k = "rat"   the rational  s * n / d                                  *)
(*    k = "root"  the irrational s * sqrt(n / d)  (a Pearson coefficient)   *)
(*    k = "nan"   IEEE NaN  (0/0)                                          *)
(*    k = "inf"   IEEE +-Inf (x/0, x # 0), sign s                          *)
(*    k = "ZeroDivisionError"  not a value: Python raised at this point     *)
(***************************************************************************)
EXTENDS Integers, Sequences, FiniteSets, TLC

VARIABLES
    x, y, hpc, out,                 \* the helpers on their own: inputs, position, output
    elem, rpc, row, rowerr,         \* one pass of the loop body on one trajectory
    cls, degree, cross,             \* the extractor object: its class and its two fields
    data,                           \* the batch handed to statistics()
    pc, ind_element, result,        \* position in statistics(), loop index, result matrix
    ret, err,                       \* returned value / raised exception
    pre,                            \* observer: the matrix as the loop of this call left it
    calls, perm, prev               \* observer: call count, permutation of the batch, last call

hvars == <<x, y, hpc, out>>
rvars == <<elem, rpc, row, rowerr>>
bvars == <<cls, degree, cross, data, pc, ind_element, result, ret, err, pre, calls, perm, prev>>
vars == <<x, y, hpc, out, elem, rpc, row, rowerr,
          cls, degree, cross, data, pc, ind_element, result, ret, err, pre, calls, perm, prev>>

-----------------------------------------------------------------------------
(* Bounds of the model *)

MaxLen == 3
MaxSeriesVal == 2
MaxT == 3
MaxVal == 2
MaxBatch == 2

-----------------------------------------------------------------------------
(* Exact rational arithmetic *)

Abs(i) == IF i < 0 THEN -i ELSE i

Sgn(i) == IF i < 0 THEN -1 ELSE IF i = 0 THEN 0 ELSE 1

RECURSIVE GCD(_, _)
GCD(a, b) == IF b = 0 THEN a ELSE GCD(b, a % b)

RNorm(n, d) ==
    LET g == GCD(Abs(n), Abs(d))
    IN  IF d < 0 THEN <<-(n \div g), -(d \div g)>> ELSE <<n \div g, d \div g>>

RInt(i) == <<i, 1>>
RAdd(a, b) == RNorm(a[1] * b[2] + b[1] * a[2], a[2] * b[2])
RSub(a, b) == RNorm(a[1] * b[2] - b[1] * a[2], a[2] * b[2])
RMul(a, b) == RNorm(a[1] * b[1], a[2] * b[2])
RDiv(a, b) == RNorm(a[1] * b[2], a[2] * b[1])

RECURSIVE RSum(_)
RSum(s) == IF Len(s) = 0 THEN RInt(0) ELSE RAdd(s[1], RSum(Tail(s)))

RECURSIVE ISqrtIn(_, _, _)
ISqrtIn(n, lo, hi) ==
    IF lo >= hi THEN lo
    ELSE LET mid == (lo + hi + 1) \div 2
         IN  IF mid * mid <= n THEN ISqrtIn(n, mid, hi) ELSE ISqrtIn(n, lo, mid - 1)

ISqrt(n) == ISqrtIn(n, 0, IF n < 46340 THEN n ELSE 46340)

IsSquare(n) == ISqrt(n) * ISqrt(n) = n

-----------------------------------------------------------------------------
(* Float values *)

NaN == [k |-> "nan", s |-> 0, n |-> 0, d |-> 1]
Inf(sg) == [k |-> "inf", s |-> sg, n |-> 1, d |-> 0]
Raised(e) == [k |-> e, s |-> 0, n |-> 0, d |-> 0]
FRat(r) == [k |-> "rat", s |-> Sgn(r[1]), n |-> Abs(r[1]), d |-> r[2]]

\* sg * sqrt(q) for a rational q >= 0, in canonical form
FRoot(sg, q) ==
    IF q[1] = 0 \/ sg = 0 THEN FRat(RInt(0))
    ELSE IF IsSquare(q[1]) /\ IsSquare(q[2])
         THEN FRat(<<sg * ISqrt(q[1]), ISqrt(q[2])>>)
         ELSE [k |-> "root", s |-> sg, n |-> q[1], d |-> q[2]]

\* numpy float64 a / b: a zero divisor gives NaN or Inf with a warning, no exception
truediv(a, b) ==
    IF b[1] = 0
    THEN IF a[1] = 0 THEN NaN ELSE Inf(Sgn(a[1]))
    ELSE FRat(RDiv(a, b))

\* numpy float64 a / np.sqrt(q), q >= 0
truediv_sqrt(a, q) ==
    IF q[1] = 0
    THEN IF a[1] = 0 THEN NaN ELSE Inf(Sgn(a[1]))
    ELSE FRoot(Sgn(a[1]), RDiv(RMul(a, a), q))

IsNaN(v) == v.k = "nan"
IsFinite(v) == v.k \in {"rat", "root"}

-----------------------------------------------------------------------------
(* numpy array operations on 1-D arrays (sequences of rationals) *)

np_mean(a) == RDiv(RSum(a), RInt(Len(a)))

np_average(a) == RDiv(RSum(a), RInt(Len(a)))

np_var(a) ==
    LET m == np_mean(a)
    IN  np_mean([t \in 1..Len(a) |-> RMul(RSub(a[t], m), RSub(a[t], m))])

\* np.insert(a, obj, v): a new array with v placed before index obj;
\* a negative obj counts from the end (obj + len)
np_insert(a, obj, v) ==
    LET p == IF obj < 0 THEN obj + Len(a) ELSE obj
    IN  SubSeq(a, 1, p) \o <<RInt(v)>> \o SubSeq(a, p + 1, Len(a))

ElemMul(a, b) == [t \in 1..Len(a) |-> RMul(a[t], b[t])]

-----------------------------------------------------------------------------
(* DepositionStatistics helpers *)

\* variant: the two series padded with 0 instead of 1
cross_covariance_pad0(xs, ys) ==
    LET xp == np_insert(xs, 0, 0)
        yp == np_insert(ys, -1, 0)
    IN  truediv_sqrt(RSub(np_mean(ElemMul(xp, yp)), RMul(np_mean(xp), np_mean(yp))),
                     RMul(np_var(xp), np_var(yp)))

cross_covariance(xs, ys) ==
    LET xp == np_insert(xs, 0, 1)
        yp == np_insert(ys, -1, 1)
    IN  truediv_sqrt(RSub(np_mean(ElemMul(xp, yp)), RMul(np_mean(xp), np_mean(yp))),
                     RMul(np_var(xp), np_var(yp)))

RECURSIVE AutoCovLoop(_, _, _, _, _)
AutoCovLoop(xs, lag, x_mean, ind, autoCov) ==
    IF ind >= Len(xs) - lag THEN autoCov
    ELSE AutoCovLoop(xs, lag, x_mean, ind + 1,
                     RAdd(autoCov, RMul(RSub(xs[ind + lag + 1], x_mean),
                                        RSub(xs[ind + 1], x_mean))))

\* variant: the final division done on Python floats, which raises on a zero divisor
auto_covariance_python_division(xs, lag) ==
    LET N == Len(xs)
        x_mean == np_average(xs)
        autoCov == AutoCovLoop(xs, lag, x_mean, 0, RInt(0))
    IN  IF N - 1 = 0 \/ np_var(xs)[1] = 0 THEN Raised("ZeroDivisionError")
        ELSE truediv(RMul(RDiv(RInt(1), RInt(N - 1)), autoCov), np_var(xs))

\* variant: the variance taken with denominator N - 1 (ddof = 1)
auto_covariance_ddof1(xs, lag) ==
    LET N == Len(xs)
        x_mean == np_average(xs)
        autoCov == AutoCovLoop(xs, lag, x_mean, 0, RInt(0))
    IN  IF N - 1 = 0 THEN Raised("ZeroDivisionError")
        ELSE truediv(RMul(RDiv(RInt(1), RInt(N - 1)), autoCov),
                     RMul(np_var(xs), RDiv(RInt(N), RInt(N - 1))))

auto_covariance(xs, lag) ==
    LET N == Len(xs)
        x_mean == np_average(xs)
        autoCov == AutoCovLoop(xs, lag, x_mean, 0, RInt(0))
    IN  IF N - 1 = 0 THEN Raised("ZeroDivisionError")
        ELSE truediv(RMul(RDiv(RInt(1), RInt(N - 1)), autoCov), np_var(xs))

-----------------------------------------------------------------------------
(* DepositionStatisticsCombined helpers (the class carries its own copies) *)

DSC_cross_covariance(xs, ys) ==
    LET xp == np_insert(xs, 0, 1)
        yp == np_insert(ys, -1, 1)
    IN  truediv_sqrt(RSub(np_mean(ElemMul(xp, yp)), RMul(np_mean(xp), np_mean(yp))),
                     RMul(np_var(xp), np_var(yp)))

RECURSIVE DSC_AutoCovLoop(_, _, _, _, _)
DSC_AutoCovLoop(xs, lag, x_mean, ind, autoCov) ==
    IF ind >= Len(xs) - lag THEN autoCov
    ELSE DSC_AutoCovLoop(xs, lag, x_mean, ind + 1,
                         RAdd(autoCov, RMul(RSub(xs[ind + lag + 1], x_mean),
                                            RSub(xs[ind + 1], x_mean))))

DSC_auto_covariance(xs, lag) ==
    LET N == Len(xs)
        x_mean == np_average(xs)
        autoCov == DSC_AutoCovLoop(xs, lag, x_mean, 0, RInt(0))
    IN  IF N - 1 = 0 THEN Raised("ZeroDivisionError")
        ELSE truediv(RMul(RDiv(RInt(1), RInt(N - 1)), autoCov), np_var(xs))

-----------------------------------------------------------------------------
(* Specification of the helpers on their own: every pair of equally long    *)
(* series over 0..MaxSeriesVal, each helper applied once.                   *)

SeriesOfLen(n) == [1..n -> {RInt(v) : v \in 0..MaxSeriesVal}]

NoFloat == Raised("unset")

RowIdle == /\ elem = <<>> /\ rpc = "off" /\ row = <<>> /\ rowerr = "none"

NoCall == [cls |-> "none", data |-> <<>>, pre |-> <<>>, ret |-> <<>>, err |-> "none"]

BatchIdle ==
    /\ cls = "none" /\ degree = 0 /\ cross = FALSE /\ data = <<>>
    /\ pc = "off" /\ ind_element = 0 /\ result = <<>> /\ ret = <<>> /\ err = "none"
    /\ pre = <<>> /\ calls = 0 /\ perm = <<>> /\ prev = NoCall

HelperIdle == /\ x = <<>> /\ y = <<>> /\ hpc = "off" /\ out = NoFloat

InitHelpers ==
    /\ \E n \in 1..MaxLen : x \in SeriesOfLen(n) /\ y \in SeriesOfLen(n)
    /\ hpc = "ready"
    /\ out = NoFloat
    /\ RowIdle
    /\ BatchIdle

CallAutoCovariance ==
    /\ hpc = "ready"
    /\ out' = auto_covariance(x, 1)
    /\ hpc' = "auto"
    /\ UNCHANGED <<x, y, rvars, bvars>>

CallCrossCovariance ==
    /\ hpc = "ready"
    /\ out' = cross_covariance(x, y)
    /\ hpc' = "cross"
    /\ UNCHANGED <<x, y, rvars, bvars>>

CallCombinedAutoCovariance ==
    /\ hpc = "ready"
    /\ out' = DSC_auto_covariance(x, 1)
    /\ hpc' = "dsc_auto"
    /\ UNCHANGED <<x, y, rvars, bvars>>

CallCombinedCrossCovariance ==
    /\ hpc = "ready"
    /\ out' = DSC_cross_covariance(x, y)
    /\ hpc' = "dsc_cross"
    /\ UNCHANGED <<x, y, rvars, bvars>>

NextHelpers ==
    \/ CallAutoCovariance
    \/ CallCrossCovariance
    \/ CallCombinedAutoCovariance
    \/ CallCombinedCrossCovariance

SpecHelpers == InitHelpers /\ [][NextHelpers]_vars

-----------------------------------------------------------------------------
(* The loop body of DepositionStatistics.statistics on one trajectory       *)
(* a: a sequence of T >= 1 rows, each a sequence of D integers.             *)

RowWidth == 24

\* __init__(self, degree = 2, cross = True)
DefaultDegree == 2

NoError == "none"
NegativeDimensions == "ValueError: negative dimensions are not allowed"
ZeroDivision == "ZeroDivisionError"
IndexOutOfBounds == "IndexError"
BroadcastMismatch == "ValueError: could not broadcast input array"

Shape0(a) == Len(a)
Shape1(a) == Len(a[1])

\* data_ind_element[:, c], c counted from 0 as in the source
Column(a, c) == [t \in 1..Len(a) |-> RInt(a[t][c + 1])]

II == << <<1, 2>>, <<1, 3>>, <<1, 4>>, <<2, 3>>, <<2, 4>>, <<3, 4>> >>

np_zeros(n) == [i \in 1..n |-> FRat(RInt(0))]

\* variant: the column slice [1:] forgotten, columns 0..D-2 averaged
DS_s1_from_column0(a) == [c \in 1..(Shape1(a) - 1) |-> FRat(np_mean(Column(a, c - 1)))]

DS_s1(a) == [c \in 1..(Shape1(a) - 1) |-> FRat(np_mean(Column(a, c)))]

DS_s2(a) == [c \in 1..(Shape1(a) - 1) |-> FRat(np_var(Column(a, c)))]

DS_s3(a) == [ind \in 1..(Shape1(a) - 1) |-> auto_covariance(Column(a, ind), 1)]

DS_s4(a) ==
    [ind \in 1..Len(II) |->
        LET c1 == Column(a, II[ind][1])
            c2 == Column(a, II[ind][2])
        IN  truediv_sqrt(RSub(np_mean(ElemMul(c1, c2)), RMul(np_mean(c1), np_mean(c2))),
                         RMul(np_var(c1), np_var(c2)))]

DS_s5(a) ==
    [ind \in 1..Len(II) |->
        cross_covariance(Column(a, II[ind][1]), Column(a, II[ind][2]))]

PairOutOfRange(a) ==
    \E ind \in 1..Len(II) : II[ind][1] >= Shape1(a) \/ II[ind][2] >= Shape1(a)

\* variant: a row that is too long is cut to the width of the result row
DS_row_error_truncating(a) ==
    IF Shape1(a) - 1 < 0 THEN NegativeDimensions
    ELSE IF \E ind \in 1..(Shape1(a) - 1) : DS_s3(a)[ind].k = ZeroDivision THEN ZeroDivision
    ELSE IF PairOutOfRange(a) THEN IndexOutOfBounds
    ELSE NoError

\* the exception the loop body raises on trajectory a, in the order the
\* statements run, or NoError
DS_row_error(a) ==
    IF Shape1(a) - 1 < 0 THEN NegativeDimensions
    ELSE IF \E ind \in 1..(Shape1(a) - 1) : DS_s3(a)[ind].k = ZeroDivision THEN ZeroDivision
    ELSE IF PairOutOfRange(a) THEN IndexOutOfBounds
    ELSE IF 3 * (Shape1(a) - 1) + 2 * Len(II) # RowWidth THEN BroadcastMismatch
    ELSE NoError

\* np.concatenate((s1, s2, s3, s4, s5)), when the loop body raises nothing
DS_row(a) == DS_s1(a) \o DS_s2(a) \o DS_s3(a) \o DS_s4(a) \o DS_s5(a)

-----------------------------------------------------------------------------
(* The same loop body as copied into DepositionStatisticsCombined.statistics *)

DSC_s1(a) == [c \in 1..(Shape1(a) - 1) |-> FRat(np_mean(Column(a, c)))]

DSC_s2(a) == [c \in 1..(Shape1(a) - 1) |-> FRat(np_var(Column(a, c)))]

DSC_s3(a) == [ind \in 1..(Shape1(a) - 1) |-> DSC_auto_covariance(Column(a, ind), 1)]

DSC_s4(a) ==
    [ind \in 1..Len(II) |->
        LET c1 == Column(a, II[ind][1])
            c2 == Column(a, II[ind][2])
        IN  truediv_sqrt(RSub(np_mean(ElemMul(c1, c2)), RMul(np_mean(c1), np_mean(c2))),
                         RMul(np_var(c1), np_var(c2)))]

DSC_s5(a) ==
    [ind \in 1..Len(II) |->
        DSC_cross_covariance(Column(a, II[ind][1]), Column(a, II[ind][2]))]

DSC_row_error(a) ==
    IF Shape1(a) - 1 < 0 THEN NegativeDimensions
    ELSE IF \E ind \in 1..(Shape1(a) - 1) : DSC_s3(a)[ind].k = ZeroDivision THEN ZeroDivision
    ELSE IF PairOutOfRange(a) THEN IndexOutOfBounds
    ELSE IF 3 * (Shape1(a) - 1) + 2 * Len(II) # RowWidth THEN BroadcastMismatch
    ELSE NoError

\* variant: the copy has drifted, the two pair groups concatenated in the other order
DSC_row_groups_swapped(a) == DSC_s1(a) \o DSC_s2(a) \o DSC_s3(a) \o DSC_s5(a) \o DSC_s4(a)

DSC_row(a) == DSC_s1(a) \o DSC_s2(a) \o DSC_s3(a) \o DSC_s4(a) \o DSC_s5(a)

-----------------------------------------------------------------------------
(* Specification of one pass of the loop body: every trajectory with 5      *)
(* columns and 1..MaxT time steps whose columns 1..4 are drawn from a       *)
(* family of series (the constants 0..MaxVal, a ramp, a zigzag, a square    *)
(* wave) and whose column 0 is a time index or all zero.                    *)

ColumnFamily(T) ==
    {[t \in 1..T |-> c] : c \in 0..MaxVal}
        \cup {[t \in 1..T |-> t - 1],
              [t \in 1..T |-> (t % 2) * MaxVal],
              [t \in 1..T |-> ((t - 1) * (t - 1)) % (MaxVal + 1)]}

IndexColumns(T) == {[t \in 1..T |-> t - 1], [t \in 1..T |-> 0]}

\* the T x 5 trajectory with the given columns
Trajectory5(T, c0, c1, c2, c3, c4) ==
    [t \in 1..T |-> <<c0[t], c1[t], c2[t], c3[t], c4[t]>>]

RowTrajectories ==
    UNION {{Trajectory5(T, c0, c1, c2, c3, c4) :
                c0 \in IndexColumns(T), c1 \in ColumnFamily(T), c2 \in ColumnFamily(T),
                c3 \in ColumnFamily(T), c4 \in ColumnFamily(T)} : T \in 1..MaxT}

InitRow ==
    /\ elem \in RowTrajectories
    /\ rpc = "ready"
    /\ row = np_zeros(RowWidth)
    /\ rowerr = NoError
    /\ HelperIdle
    /\ BatchIdle

\* lines 24-48: the row is stored only if nothing was raised before the store
LoopBody ==
    /\ rpc = "ready"
    /\ rowerr' = DS_row_error(elem)
    /\ row' = IF DS_row_error(elem) = NoError THEN DS_row(elem) ELSE row
    /\ rpc' = "done"
    /\ UNCHANGED <<elem, hvars, bvars>>

\* lines 140-164
CombinedLoopBody ==
    /\ rpc = "ready"
    /\ rowerr' = DSC_row_error(elem)
    /\ row' = IF DSC_row_error(elem) = NoError THEN DSC_row(elem) ELSE row
    /\ rpc' = "dsc_done"
    /\ UNCHANGED <<elem, hvars, bvars>>

NextRow == LoopBody \/ CombinedLoopBody

SpecRow == InitRow /\ [][NextRow]_vars

-----------------------------------------------------------------------------
(* Polynomial expansion (Statistics._polynomial_expansion of the abcpy      *)
(* base class): the columns, their powers 2..degree, then, if cross, the    *)
(* products of every pair of distinct columns.                              *)

SquareOf(v) == IF v.k = "rat" THEN <<v.n * v.n, v.d * v.d>> ELSE <<v.n, v.d>>

\* IEEE product of two float values
FMul(a, b) ==
    IF a.k = "nan" \/ b.k = "nan" THEN NaN
    ELSE IF a.k = "inf" \/ b.k = "inf"
         THEN IF a.s * b.s = 0 THEN NaN ELSE Inf(a.s * b.s)
    ELSE IF a.k = "rat" /\ b.k = "rat"
         THEN FRat(RNorm(a.s * a.n * b.s * b.n, a.d * b.d))
    ELSE FRoot(a.s * b.s, RMul(SquareOf(a), SquareOf(b)))

RECURSIVE FPow(_, _)
FPow(a, e) == IF e <= 1 THEN a ELSE FMul(a, FPow(a, e - 1))

RECURSIVE Flatten(_)
Flatten(ss) == IF Len(ss) = 0 THEN <<>> ELSE ss[1] \o Flatten(Tail(ss))

polynomial_expansion_row(r, deg, cr) ==
    LET W == Len(r)
        powers == Flatten([e \in 1..(deg - 1) |-> [i \in 1..W |-> FPow(r[i], e + 1)]])
        products ==
            Flatten([i1 \in 1..W |-> [k \in 1..(W - i1) |-> FMul(r[i1], r[i1 + k])]])
    IN  r \o powers \o (IF cr /\ W > 1 THEN products ELSE <<>>)

polynomial_expansion(m, deg, cr) ==
    [i \in 1..Len(m) |-> polynomial_expansion_row(m[i], deg, cr)]

-----------------------------------------------------------------------------
(* Specification of statistics() on batches.  The batch is a sequence of at *)
(* most MaxBatch trajectories taken from seven fixed ones: two well formed, *)
(* the others too short, too narrow, too wide or without columns.  An        *)
(* extractor of one of the three classes is constructed with degree 1 or    *)
(* the default 2 and cross in BOOLEAN and statistics(data) runs; then an     *)
(* extractor of any class with the same degree and cross runs on a           *)
(* permutation of the same batch, the first call being kept in prev.        *)

TrajA == << <<0, 1, 0, 2, 1>>, <<1, 2, 1, 0, 0>>, <<2, 0, 2, 1, 2>> >>
TrajB == << <<0, 0, 1, 2, 0>>, <<1, 1, 1, 0, 2>> >>
TrajShort == << <<0, 1, 2, 0, 1>> >>
TrajNarrow == << <<0, 1, 0, 2>>, <<1, 0, 2, 1>> >>
TrajWide == << <<0, 1, 0, 2, 1, 2>>, <<1, 0, 2, 1, 1, 0>> >>
TrajShortNarrow == << <<0, 1, 2>> >>
TrajNoColumns == << <<>>, <<>> >>

Trajectories ==
    {TrajA, TrajB, TrajShort, TrajNarrow, TrajWide, TrajShortNarrow, TrajNoColumns}

Batches == UNION {[1..n -> Trajectories] : n \in 0..MaxBatch}

Classes == {"DepositionStatistics", "DepositionIdentityStatistics",
            "DepositionStatisticsCombined"}

BatchPermutations(n) == {p \in [1..n -> 1..n] : \A i, j \in 1..n : p[i] = p[j] => i = j}

Permute(d, p) == [i \in 1..Len(d) |-> d[p[i]]]

\* the state after __init__(degree, cross) of the extractor and before the call
Init ==
    /\ cls \in Classes
    /\ degree \in {1, DefaultDegree}
    /\ cross \in BOOLEAN
    /\ data \in Batches
    /\ pc = "idle"
    /\ ind_element = 0
    /\ result = <<>>
    /\ ret = <<>>
    /\ err = NoError
    /\ pre = <<>>
    /\ calls = 0
    /\ perm = [i \in 1..Len(data) |-> i]
    /\ prev = NoCall
    /\ HelperIdle
    /\ RowIdle

\* variant: the last trajectory returned instead of the first
IdentityStatistics_last ==
    /\ pc = "idle" /\ cls = "DepositionIdentityStatistics"
    /\ calls' = calls + 1
    /\ IF Len(data) = 0
       THEN /\ err' = IndexOutOfBounds /\ pc' = "failed" /\ ret' = ret
       ELSE /\ ret' = data[Len(data)] /\ pc' = "done" /\ err' = err
    /\ UNCHANGED <<cls, degree, cross, data, ind_element, result, pre, perm, prev,
                   hvars, rvars>>

\* DepositionIdentityStatistics.statistics: return data[0]
IdentityStatistics ==
    /\ pc = "idle" /\ cls = "DepositionIdentityStatistics"
    /\ calls' = calls + 1
    /\ IF Len(data) = 0
       THEN /\ err' = IndexOutOfBounds /\ pc' = "failed" /\ ret' = ret
       ELSE /\ ret' = data[1] /\ pc' = "done" /\ err' = err
    /\ UNCHANGED <<cls, degree, cross, data, ind_element, result, pre, perm, prev,
                   hvars, rvars>>

\* DepositionStatistics.statistics, lines 20-21
StatisticsEnter ==
    /\ pc = "idle" /\ cls = "DepositionStatistics"
    /\ calls' = calls + 1
    /\ result' = [i \in 1..Len(data) |-> np_zeros(RowWidth)]
    /\ ind_element' = 0
    /\ pc' = "loop"
    /\ UNCHANGED <<cls, degree, cross, data, ret, err, pre, perm, prev, hvars, rvars>>

\* variant: every row computed from the first trajectory of the batch
StatisticsIterate_first_element ==
    /\ pc = "loop" /\ cls = "DepositionStatistics"
    /\ ind_element < Len(data)
    /\ LET a == data[1]
           e == DS_row_error(a)
       IN  IF e # NoError
           THEN /\ err' = e /\ pc' = "failed"
                /\ UNCHANGED <<result, ind_element>>
           ELSE /\ result' = [result EXCEPT ![ind_element + 1] = DS_row(a)]
                /\ ind_element' = ind_element + 1
                /\ UNCHANGED <<err, pc>>
    /\ UNCHANGED <<cls, degree, cross, data, ret, pre, calls, perm, prev, hvars, rvars>>

\* variant: the trajectory is not copied and its column 0 is overwritten in place
StatisticsIterate_in_place ==
    /\ pc = "loop" /\ cls = "DepositionStatistics"
    /\ ind_element < Len(data)
    /\ LET a == data[ind_element + 1]
           e == DS_row_error(a)
       IN  /\ IF e # NoError
              THEN /\ err' = e /\ pc' = "failed"
                   /\ UNCHANGED <<result, ind_element>>
              ELSE /\ result' = [result EXCEPT ![ind_element + 1] = DS_row(a)]
                   /\ ind_element' = ind_element + 1
                   /\ UNCHANGED <<err, pc>>
           /\ data' = [data EXCEPT ![ind_element + 1] =
                          [t \in 1..Len(a) |->
                              IF Len(a[t]) = 0 THEN a[t] ELSE [a[t] EXCEPT ![1] = 1]]]
    /\ UNCHANGED <<cls, degree, cross, ret, pre, calls, perm, prev, hvars, rvars>>

\* lines 23-48: one iteration; an exception ends the call
StatisticsIterate ==
    /\ pc = "loop" /\ cls = "DepositionStatistics"
    /\ ind_element < Len(data)
    /\ LET a == data[ind_element + 1]
           e == DS_row_error(a)
       IN  IF e # NoError
           THEN /\ err' = e /\ pc' = "failed"
                /\ UNCHANGED <<result, ind_element>>
           ELSE /\ result' = [result EXCEPT ![ind_element + 1] = DS_row(a)]
                /\ ind_element' = ind_element + 1
                /\ UNCHANGED <<err, pc>>
    /\ UNCHANGED <<cls, degree, cross, data, ret, pre, calls, perm, prev, hvars, rvars>>

\* line 51
StatisticsExpand ==
    /\ pc = "loop" /\ cls = "DepositionStatistics"
    /\ ind_element = Len(data)
    /\ pre' = result
    /\ result' = polynomial_expansion(result, degree, cross)
    /\ pc' = "expanded"
    /\ UNCHANGED <<cls, degree, cross, data, ind_element, ret, err, calls, perm, prev,
                   hvars, rvars>>

\* line 53
StatisticsReturn ==
    /\ pc = "expanded" /\ cls = "DepositionStatistics"
    /\ ret' = result
    /\ pc' = "done"
    /\ UNCHANGED <<cls, degree, cross, data, ind_element, result, err, pre, calls, perm,
                   prev, hvars, rvars>>

\* DepositionStatisticsCombined.statistics, lines 136-137
CombinedEnter ==
    /\ pc = "idle" /\ cls = "DepositionStatisticsCombined"
    /\ calls' = calls + 1
    /\ result' = [i \in 1..Len(data) |-> np_zeros(RowWidth)]
    /\ ind_element' = 0
    /\ pc' = "loop"
    /\ UNCHANGED <<cls, degree, cross, data, ret, err, pre, perm, prev, hvars, rvars>>

\* lines 139-164
CombinedIterate ==
    /\ pc = "loop" /\ cls = "DepositionStatisticsCombined"
    /\ ind_element < Len(data)
    /\ LET a == data[ind_element + 1]
           e == DSC_row_error(a)
       IN  IF e # NoError
           THEN /\ err' = e /\ pc' = "failed"
                /\ UNCHANGED <<result, ind_element>>
           ELSE /\ result' = [result EXCEPT ![ind_element + 1] = DSC_row(a)]
                /\ ind_element' = ind_element + 1
                /\ UNCHANGED <<err, pc>>
    /\ UNCHANGED <<cls, degree, cross, data, ret, pre, calls, perm, prev, hvars, rvars>>

\* line 167
CombinedExpand ==
    /\ pc = "loop" /\ cls = "DepositionStatisticsCombined"
    /\ ind_element = Len(data)
    /\ pre' = result
    /\ result' = polynomial_expansion(result, degree, cross)
    /\ pc' = "expanded"
    /\ UNCHANGED <<cls, degree, cross, data, ind_element, ret, err, calls, perm, prev,
                   hvars, rvars>>

\* line 169: [result, data[0]]
CombinedReturn ==
    /\ pc = "expanded" /\ cls = "DepositionStatisticsCombined"
    /\ IF Len(data) = 0
       THEN /\ err' = IndexOutOfBounds /\ pc' = "failed" /\ ret' = ret
       ELSE /\ ret' = <<result, data[1]>> /\ pc' = "done" /\ err' = err
    /\ UNCHANGED <<cls, degree, cross, data, ind_element, result, pre, calls, perm, prev,
                   hvars, rvars>>

\* The caller, after the first call has ended: it keeps what the call gave and
\* hands a permutation of the same batch to an extractor of any class with
\* the same degree and cross.  Two calls are observed.
SecondCall ==
    /\ pc \in {"done", "failed"} /\ calls = 1
    /\ \E c \in Classes, p \in BatchPermutations(Len(data)) :
          /\ cls' = c
          /\ perm' = p
          /\ data' = Permute(data, p)
    /\ prev' = [cls |-> cls, data |-> data, pre |-> pre, ret |-> ret, err |-> err]
    /\ pc' = "idle"
    /\ ind_element' = 0
    /\ result' = <<>>
    /\ ret' = <<>>
    /\ err' = NoError
    /\ pre' = <<>>
    /\ UNCHANGED <<degree, cross, calls, hvars, rvars>>

Next ==
    \/ IdentityStatistics
    \/ StatisticsEnter
    \/ StatisticsIterate
    \/ StatisticsExpand
    \/ StatisticsReturn
    \/ CombinedEnter
    \/ CombinedIterate
    \/ CombinedExpand
    \/ CombinedReturn
    \/ SecondCall

Spec == Init /\ [][Next]_vars

-----------------------------------------------------------------------------
(* Reference moments of integer series, written with integer sums only *)

RECURSIVE SumFn(_, _, _)
SumFn(f, lo, hi) == IF lo > hi THEN 0 ELSE f[lo] + SumFn(f, lo + 1, hi)

IntsOf(a) == [t \in 1..Len(a) |-> a[t][1]]

\* N * a[t] - sum(a): N times the deviation of a[t] from the mean
ScaledDev(a) ==
    LET N == Len(a)
        S == SumFn(a, 1, N)
    IN  [t \in 1..N |-> N * a[t] - S]

\* sum over t = 0..N-2 of dev[t+1] * dev[t], times N^2
LagProductSum(a) ==
    LET e == ScaledDev(a)
    IN  SumFn([t \in 1..(Len(a) - 1) |-> e[t + 1] * e[t]], 1, Len(a) - 1)

\* sum of squared deviations, times N^2
SquareSum(a) ==
    LET e == ScaledDev(a)
    IN  SumFn([t \in 1..Len(a) |-> e[t] * e[t]], 1, Len(a))

\* (lag sum / (N-1)) / (squared deviations / (N-1))
AutoCovOverSampleVariance(a) == FRat(RNorm(LagProductSum(a), SquareSum(a)))

\* (lag sum / (N-1)) / (squared deviations / N)
AutoCovOverPopulationVariance(a) ==
    FRat(RNorm(Len(a) * LagProductSum(a), (Len(a) - 1) * SquareSum(a)))

\* Pearson correlation coefficient of two equally long integer series
Pearson(u, v) ==
    LET M == Len(u)
        Su == SumFn(u, 1, M)
        Sv == SumFn(v, 1, M)
        Suv == SumFn([t \in 1..M |-> u[t] * v[t]], 1, M)
        Suu == SumFn([t \in 1..M |-> u[t] * u[t]], 1, M)
        Svv == SumFn([t \in 1..M |-> v[t] * v[t]], 1, M)
    IN  truediv_sqrt(RInt(M * Suv - Su * Sv),
                     RInt((M * Suu - Su * Su) * (M * Svv - Sv * Sv)))

-----------------------------------------------------------------------------
(* Claims about the helpers *)

AutoDone == hpc \in {"auto", "dsc_auto"}
CrossDone == hpc \in {"cross", "dsc_cross"}

\* C6 as stated: for N >= 2 and non-zero variance, _auto_covariance(x, 1) is the
\* lag-1 sum divided by N-1, divided by the variance with denominator N-1.
C6_UnbiasedVariance ==
    (AutoDone /\ Len(x) >= 2 /\ SquareSum(IntsOf(x)) # 0)
        => out = AutoCovOverSampleVariance(IntsOf(x))

\* C6 amended: for N >= 2 and non-zero variance, _auto_covariance(x, 1) is the
\* lag-1 sum divided by N-1, divided by the variance with denominator N
\* (np.var with its default ddof = 0).
C6_PopulationVariance ==
    (AutoDone /\ Len(x) >= 2 /\ SquareSum(IntsOf(x)) # 0)
        => out = AutoCovOverPopulationVariance(IntsOf(x))

C6_Witness ==
    /\ hpc = "auto" /\ Len(x) >= 3 /\ SquareSum(IntsOf(x)) # 0
    /\ out.k = "rat" /\ out.s = -1

\* C7 as stated: _cross_covariance(x, y) is the Pearson coefficient of
\* [1, x[0..N-1]] and [y[0..N-1], 1] (the constant 1 after the last element of y).
C7_AppendedSentinel ==
    CrossDone => out = Pearson(<<1>> \o IntsOf(x), IntsOf(y) \o <<1>>)

\* What the code computes instead: np.insert(y, -1, 1) puts the 1 before the
\* last element of y, giving [y[0..N-2], 1, y[N-1]].
C7_SentinelBeforeLast ==
    CrossDone =>
        out = Pearson(<<1>> \o IntsOf(x),
                      SubSeq(IntsOf(y), 1, Len(y) - 1) \o <<1>>
                          \o SubSeq(IntsOf(y), Len(y), Len(y)))

-----------------------------------------------------------------------------
(* Claims about one row *)

IntColumn(a, c) == [t \in 1..Len(a) |-> a[t][c + 1]]

MeanOf(u) == FRat(RNorm(SumFn(u, 1, Len(u)), Len(u)))

\* population variance: sum of squared deviations / N
VarianceOf(u) == FRat(RNorm(SquareSum(u), Len(u) * Len(u) * Len(u)))

AutoCoefficientOf(u) ==
    IF SquareSum(u) = 0 THEN NaN ELSE AutoCovOverPopulationVariance(u)

\* the helper's lag-1 statistic: Pearson coefficient of [1, u] and v with a 1
\* inserted before its last element
LaggedCoefficientOf(u, v) ==
    Pearson(<<1>> \o u,
            SubSeq(v, 1, Len(v) - 1) \o <<1>> \o SubSeq(v, Len(v), Len(v)))

ClaimedPairs == << <<1, 2>>, <<1, 3>>, <<1, 4>>, <<2, 3>>, <<2, 4>>, <<3, 4>> >>

RowDone == rpc = "done"

\* C4: for D = 5 and T >= 2 the row has 24 entries: means of columns 1..4,
\* their variances, their lag-1 autocovariance coefficients, the zero-lag
\* correlations of (1,2),(1,3),(1,4),(2,3),(2,4),(3,4), then the lag-1
\* cross-covariances of the same pairs; column 0 enters no entry.
C4_RowLayout ==
    (RowDone /\ Shape0(elem) >= 2) =>
        /\ rowerr = NoError
        /\ Len(row) = 24
        /\ \A c \in 1..4 :
              /\ row[c] = MeanOf(IntColumn(elem, c))
              /\ row[4 + c] = VarianceOf(IntColumn(elem, c))
              /\ row[8 + c] = AutoCoefficientOf(IntColumn(elem, c))
        /\ \A j \in 1..6 :
              LET u == IntColumn(elem, ClaimedPairs[j][1])
                  v == IntColumn(elem, ClaimedPairs[j][2])
              IN  /\ row[12 + j] = Pearson(u, v)
                  /\ row[18 + j] = LaggedCoefficientOf(u, v)

C4_Witness ==
    /\ RowDone /\ Shape0(elem) = 3 /\ rowerr = NoError
    /\ elem[2][1] = 1
    /\ row[1] # row[2] /\ row[2] # row[3]
    /\ row[13].k = "root" /\ row[19] # row[20]

IsConstant(u) == \A t \in 1..Len(u) : u[t] = u[1]

AllColumnsConstant(a) == \A c \in 1..4 : IsConstant(IntColumn(a, c))

NaNOrInf(v) == v.k \in {"nan", "inf"}

AllOnes(u) == \A t \in 1..Len(u) : u[t] = 1

\* every entry of the row whose denominator is zero is NaN or Inf
ZeroDenominatorsGiveNaN ==
    /\ \A c \in 1..4 : IsConstant(IntColumn(elem, c)) => NaNOrInf(row[8 + c])
    /\ \A j \in 1..6 :
          LET u == IntColumn(elem, ClaimedPairs[j][1])
              v == IntColumn(elem, ClaimedPairs[j][2])
          IN  /\ (IsConstant(u) \/ IsConstant(v)) => NaNOrInf(row[12 + j])
              /\ (AllOnes(u) \/ AllOnes(v)) => NaNOrInf(row[18 + j])

\* C9 as stated: for every trajectory with D = 5, T = 1 included, the loop body
\* raises nothing and every zero denominator shows as NaN/Inf in the row.
C9_NeverRaises ==
    RowDone => (rowerr = NoError /\ ZeroDenominatorsGiveNaN)

\* C9 amended: for D = 5 and T >= 2 the loop body raises nothing and every zero
\* variance shows as NaN/Inf in the row; for T = 1 the Python division
\* 1/(N-1) in _auto_covariance raises ZeroDivisionError and no row is stored.
C9_RaisesOnlyForSingleRow ==
    RowDone =>
        /\ Shape0(elem) >= 2 => (rowerr = NoError /\ ZeroDenominatorsGiveNaN)
        /\ Shape0(elem) = 1 => (rowerr = ZeroDivision /\ row = np_zeros(RowWidth))

C9_Witness ==
    /\ RowDone /\ Shape0(elem) >= 2 /\ rowerr = NoError
    /\ IsConstant(IntColumn(elem, 1)) /\ ~IsConstant(IntColumn(elem, 2))
    /\ IsNaN(row[9]) /\ IsNaN(row[13]) /\ IsFinite(row[10])

-----------------------------------------------------------------------------
(* Claims about statistics() on batches *)

CallEnded == pc \in {"done", "failed"}

LoopEnded == pc = "loop" /\ ind_element = Len(data)

WellFormed(a) == Shape0(a) >= 2 /\ Shape1(a) = 5

WellFormedBatch(d) == Len(d) >= 1 /\ \A i \in 1..Len(d) : WellFormed(d[i])

\* C1: on a non-empty batch DepositionIdentityStatistics.statistics returns the
\* first trajectory unchanged, whatever the other trajectories, degree and cross.
C1_IdentityReturnsFirst ==
    (cls = "DepositionIdentityStatistics" /\ CallEnded /\ Len(data) >= 1) =>
        (pc = "done" /\ err = NoError /\ ret = data[1])

C1_Witness ==
    /\ cls = "DepositionIdentityStatistics" /\ pc = "done"
    /\ Len(data) = 2 /\ data[1] # data[2] /\ ret = data[1]
    /\ degree = 1 /\ cross = FALSE

\* C2: on a non-empty batch of well-formed trajectories the combined extractor
\* returns a pair: the matrix DepositionStatistics.statistics returns for the
\* same batch, degree and cross, and the first trajectory unchanged.
C2_CombinedPairsStatisticsWithFirst ==
    /\ (calls = 2 /\ CallEnded /\ cls = "DepositionStatisticsCombined"
            /\ prev.cls = "DepositionStatistics" /\ prev.data = data
            /\ WellFormedBatch(data))
         => (pc = "done" /\ prev.err = NoError
                /\ Len(ret) = 2 /\ ret[1] = prev.ret /\ ret[2] = data[1])
    /\ (calls = 2 /\ CallEnded /\ cls = "DepositionStatistics"
            /\ prev.cls = "DepositionStatisticsCombined" /\ prev.data = data
            /\ WellFormedBatch(data))
         => (pc = "done" /\ prev.err = NoError
                /\ Len(prev.ret) = 2 /\ prev.ret[1] = ret /\ prev.ret[2] = data[1])

C2_Witness ==
    /\ calls = 2 /\ pc = "done" /\ cls = "DepositionStatisticsCombined"
    /\ prev.cls = "DepositionStatistics" /\ prev.data = data
    /\ data = <<TrajA, TrajB>> /\ degree = 2 /\ cross = TRUE
    /\ Len(ret[1][1]) > RowWidth

\* C3: when the loop of DepositionStatistics.statistics ends, the matrix has one
\* row per trajectory, row i computed from trajectory i alone; on a permuted
\* batch it is the matrix of the original batch with its rows permuted alike.
C3_RowsFollowTrajectories ==
    (cls = "DepositionStatistics" /\ LoopEnded /\ WellFormedBatch(data)) =>
        /\ Len(result) = Len(data)
        /\ \A i \in 1..Len(data) : result[i] = DS_row(data[i])
        /\ (calls = 2 /\ prev.cls = "DepositionStatistics") =>
              /\ Len(prev.pre) = Len(data)
              /\ \A i \in 1..Len(data) : result[i] = prev.pre[perm[i]]

C3_Witness ==
    /\ cls = "DepositionStatistics" /\ LoopEnded /\ calls = 2
    /\ prev.cls = "DepositionStatistics"
    /\ prev.data = <<TrajA, TrajB>> /\ perm = <<2, 1>> /\ data = <<TrajB, TrajA>>
    /\ result[1] # result[2] /\ result[1] = prev.pre[2]

\* C5: a call of statistics leaves the batch, its trajectories and the
\* extractor's degree and cross as they were, whether it returns or fails, and
\* a second call of the same class on the same batch ends as the first did.
C5_NoSideEffects ==
    [][ /\ (pc \in {"idle", "loop", "expanded"})
              => (data' = data /\ degree' = degree /\ cross' = cross)
        /\ (calls' = 2 /\ pc' \in {"done", "failed"} /\ cls' = prev'.cls
                /\ data' = prev'.data)
              => (ret' = prev'.ret /\ err' = prev'.err) ]_vars

C5_Witness ==
    /\ calls = 2 /\ pc = "failed" /\ cls = "DepositionStatistics"
    /\ prev.cls = "DepositionStatistics" /\ prev.data = data
    /\ data = <<TrajA, TrajNarrow>> /\ ind_element = 1 /\ err = prev.err

SomeNarrow(d) == \E i \in 1..Len(d) : Shape1(d[i]) < 5
SomeWide(d) == \E i \in 1..Len(d) : Shape1(d[i]) > 5

\* C10 as stated: a batch with a trajectory of D < 5 fails with an out-of-range
\* column index, one with a trajectory of D > 5 fails when the row is stored.
C10_IndexOrStoreFailure ==
    (cls = "DepositionStatistics" /\ CallEnded) =>
        /\ (SomeNarrow(data) /\ ~SomeWide(data))
              => (pc = "failed" /\ err = IndexOutOfBounds)
        /\ (SomeWide(data) /\ ~SomeNarrow(data))
              => (pc = "failed" /\ err = BroadcastMismatch)

Malformed(a) == Shape1(a) # 5 \/ Shape0(a) = 1

FirstMalformed(d) ==
    CHOOSE i \in 1..Len(d) : Malformed(d[i]) /\ \A j \in 1..(i - 1) : ~Malformed(d[j])

FailureOf(a) ==
    IF Shape1(a) = 0 THEN NegativeDimensions
    ELSE IF Shape0(a) = 1 /\ Shape1(a) >= 2 THEN ZeroDivision
    ELSE IF Shape1(a) < 5 THEN IndexOutOfBounds
    ELSE BroadcastMismatch

\* C10 amended: a batch with a trajectory of D # 5 never yields a returned
\* result: the call fails at the first trajectory that has D # 5 or T = 1, with
\* ZeroDivisionError if that one has T = 1 and D >= 2, else with an
\* out-of-range column index if 1 <= D < 5 (a negative dimension if D = 0),
\* else on storing the row of length 3*(D-1)+12 if D > 5; the rows from that
\* trajectory on are never filled and nothing is returned.
C10_FailsAtFirstMalformed ==
    (cls = "DepositionStatistics" /\ CallEnded /\ (SomeNarrow(data) \/ SomeWide(data))) =>
        /\ pc = "failed"
        /\ ret = <<>>
        /\ err = FailureOf(data[FirstMalformed(data)])
        /\ ind_element = FirstMalformed(data) - 1
        /\ \A i \in FirstMalformed(data)..Len(data) : result[i] = np_zeros(RowWidth)

C10_Witness ==
    /\ cls = "DepositionStatistics" /\ pc = "failed"
    /\ data = <<TrajA, TrajWide>> /\ err = BroadcastMismatch
    /\ ind_element = 1 /\ result[1] = DS_row(TrajA) /\ result[2] = np_zeros(RowWidth)

====
